---- MODULE Spec2Model ----
(***************************************************************************)
(* A model of kvs (src/src/lib.rs): a key-value store kept in append-only  *)
(* log segments "<generation>.log" with an in-memory index and inline      *)
(* compaction.  A segment file is the sequence of the lines appended to    *)
(* it; byte offsets are computed from the encoded length of every line.    *)
(***************************************************************************)
EXTENDS Integers, Sequences, FiniteSets, TLC

\* ------------------------------------------------------------------------
\* Bounds of the exploration
MaxGen == 4
MaxRecs == 2
MaxFaults == 1

\* ------------------------------------------------------------------------
\* Constants and input domains
COMPACTION_THRESHOLD == 1024 * 1024

Keys == {"a", "b"}
Values == {"x", "big"}
NoVal == "<none>"

\* byte length of a string: "big" stands for a long value, chosen so that
\* the line of Set("a","big") is exactly as long as the compaction threshold
StrLen(s) == IF s = "big" THEN COMPACTION_THRESHOLD - 17 ELSE 1

\* ------------------------------------------------------------------------
\* Records (KvsCommand) and their serde_json encoding
SetCmd(k, v) == [op |-> "Set", key |-> k, val |-> v]
RemoveCmd(k) == [op |-> "Remove", key |-> k, val |-> NoVal]

\* length of serde_json::to_string: {"Set":["k","v"]} and {"Remove":"k"}
to_string_len(cmd) ==
    IF cmd.op = "Set" THEN 15 + StrLen(cmd.key) + StrLen(cmd.val)
                      ELSE 13 + StrLen(cmd.key)

\* log_cmd writes format!("{}\n", cmd): the command and the bytes of its line
Line(cmd) == [op |-> cmd.op, key |-> cmd.key, val |-> cmd.val,
              len |-> to_string_len(cmd) + 1]

\* the last n bytes of a line: what read_line yields from inside a line
PartialLine(n) == [op |-> "Partial", key |-> NoVal, val |-> NoVal, len |-> n]

RECURSIVE Offset(_, _)
\* byte offset at which the i-th line of file f starts
Offset(f, i) == IF i <= 1 THEN 0 ELSE Offset(f, i - 1) + f[i - 1].len

FileLen(f) == Offset(f, Len(f) + 1)

\* seek(SeekFrom::Start(pos)) followed by read_line: the line starting at
\* pos, nothing at or past the end of the file, the rest of a line otherwise
read_line(f, pos) ==
    IF pos >= FileLen(f) THEN <<>>
    ELSE LET i == CHOOSE j \in 1..Len(f) : Offset(f, j) <= pos /\ pos < Offset(f, j + 1)
         IN  IF Offset(f, i) = pos THEN <<f[i]>>
             ELSE <<PartialLine(Offset(f, i + 1) - pos)>>

\* serde_json::from_str succeeds on a whole line only
from_str_ok(line) == line # <<>> /\ line[1].op \in {"Set", "Remove"}

\* ------------------------------------------------------------------------
\* Index (HashMap<KvsKey, IndexMeta>) as a function on a subset of Keys
IndexMeta(g, p) == [gen |-> g, pos |-> p]
EmptyIndex == [k \in {} |-> IndexMeta(0, 0)]
index_insert(idx, k, meta) == (k :> meta) @@ idx
index_remove_keeps(idx, k) == idx
index_remove(idx, k) == [x \in (DOMAIN idx) \ {k} |-> idx[x]]

\* ------------------------------------------------------------------------
\* Directory listing and replay
RECURSIVE Perms(_)
\* every order in which the elements of S can be enumerated
Perms(S) == IF S = {} THEN {<<>>}
            ELSE UNION {{<<x>> \o p : p \in Perms(S \ {x})} : x \in S}

\* gen_list: the generations of the segment files, in directory order
gen_list(d) == Perms(DOMAIN d)

RECURSIVE SortedSeq(_)
SortedSeq(S) == IF S = {} THEN <<>>
                ELSE LET m == CHOOSE x \in S : \A y \in S : x <= y
                     IN  <<m>> \o SortedSeq(S \ {m})

SortGens_unsorted(gl) == gl
\* gen_list.sort()
SortGens(gl) == SortedSeq({gl[i] : i \in 1..Len(gl)})

NextGen_last(sorted) == IF sorted = <<>> THEN 0 ELSE sorted[Len(sorted)]
\* the active generation chosen by open
NextGen(sorted) == IF sorted = <<>> THEN 0 ELSE sorted[Len(sorted)] + 1

\* one replayed line of generation g at offset pos
ReplayLine(idx, g, cmd, pos) ==
    IF cmd.op = "Set" THEN index_insert(idx, cmd.key, IndexMeta(g, pos))
                      ELSE index_remove(idx, cmd.key)

RECURSIVE ReplayFile(_, _, _, _)
ReplayFile(idx, g, f, i) ==
    IF i > Len(f) THEN idx
    ELSE ReplayFile(ReplayLine(idx, g, f[i], Offset(f, i)), g, f, i + 1)

RECURSIVE ReplayGens(_, _, _, _)
ReplayGens(idx, d, gl, n) ==
    IF n > Len(gl) THEN idx
    ELSE ReplayGens(ReplayFile(idx, gl[n], d[gl[n]], 1), d, gl, n + 1)

\* index(path, gen_list)
build_index(d, gl) == ReplayGens(EmptyIndex, d, gl, 1)

\* File::create: creates the file, or truncates an existing one
new_log(d, g) == (g :> <<>>) @@ d

\* serde_json::from_str fails in index() on a line that is no whole record
replay_ok(d, gl) ==
    \A n \in 1..Len(gl) : \A i \in 1..Len(d[gl[n]]) : from_str_ok(<<d[gl[n]][i]>>)

\* ------------------------------------------------------------------------
\* The state: the storage directory and the fields of KvStore
VARIABLES
    pathKind,   \* what the path names: "absent", "dir" or "file"
    disk,       \* generation -> lines of the segment file "<generation>.log"
    opened,     \* a KvStore handle exists
    index,      \* KvStore.index
    readers,    \* KvStore.readers: the generations with an open read handle
    writerGen,  \* the generation of the file KvStore.writer appends to
    wbuf,       \* lines held in KvStore.writer's buffer, not yet in the file
    gen,        \* KvStore.gen
    cursor,     \* KvStore.cursor
    lastOp,     \* the last call and what it returned
    view,       \* history: key -> value of its last set, NoVal after a remove
    closedView, \* history: what get returned for every key at the last close
    pre,        \* history: what held when the last call's compaction started
    nfaults,    \* history: how many I/O calls have failed so far
    ever        \* history: every generation a segment file has had so far

vars == <<pathKind, disk, opened, index, readers, writerGen, wbuf, gen, cursor,
          lastOp, view, closedView, pre, nfaults, ever>>

\* the KvStore and its directory as one value
Store == [index |-> index, readers |-> readers, writerGen |-> writerGen,
          wbuf |-> wbuf, gen |-> gen, cursor |-> cursor, disk |-> disk]

\* where an I/O call of an operation fails; NoFault: every call succeeds
Fault(at, n) == [at |-> at, n |-> n]
NoFault == Fault("none", 0)

\* ------------------------------------------------------------------------
\* get
GetResult(res, val) == [res |-> res, val |-> val]

get(S, k) ==
    IF k \notin DOMAIN S.index THEN GetResult("Ok", NoVal)
    ELSE LET m == S.index[k]
         IN  IF m.gen \notin S.readers THEN GetResult("panic", NoVal)
             ELSE LET line == read_line(S.disk[m.gen], m.pos)
                  IN  IF ~from_str_ok(line) THEN GetResult("SerdeJsonError", NoVal)
                      ELSE IF line[1].op = "Set" THEN GetResult("Ok", line[1].val)
                      ELSE GetResult("panic", NoVal)

GetAll(S) == [k \in Keys |-> get(S, k)]

\* ------------------------------------------------------------------------
\* the write path

\* BufWriter::flush, and BufWriter's drop: the buffered lines reach the file
flush_writer(S) ==
    [S EXCEPT !.disk = [@ EXCEPT ![S.writerGen] = @ \o S.wbuf], !.wbuf = <<>>]

\* the capacity of the BufWriter made by BufWriter::new: write_all holds a
\* shorter line in the buffer and hands a longer one to the file directly
BufCapacity == 8 * 1024

log_cmd_unflushed(S, line, fault) ==
    [st |-> [S EXCEPT !.wbuf = @ \o <<line>>, !.cursor = @ + line.len],
     ok |-> fault.at # "flush"]
\* log_cmd: [st, ok].  With the fault, a line held in the buffer stays there
\* when flush fails, and a line handed to the file directly is not written
log_cmd(S, line, fault) ==
    LET buffered == [S EXCEPT !.wbuf = @ \o <<line>>]
    IN  IF fault.at = "flush"
        THEN [st |-> IF line.len < BufCapacity THEN buffered ELSE S,
              ok |-> FALSE]
        ELSE [st |-> [flush_writer(buffered) EXCEPT !.cursor = @ + line.len],
              ok |-> TRUE]

\* prepare_new_gen: [st, ok]; the caller installs the writer it returns
prepare_new_gen(S, new_gen, fault) ==
    IF fault.at = "create_active" THEN [st |-> S, ok |-> FALSE]
    ELSE LET S1 == [S EXCEPT !.disk = new_log(@, new_gen)]
         IN  IF fault.at = "open_active" THEN [st |-> S1, ok |-> FALSE]
             ELSE [st |-> [S1 EXCEPT !.readers = @ \cup {new_gen}], ok |-> TRUE]

\* ------------------------------------------------------------------------
\* compaction

ArchivePos_zero(cur) == 0
\* the offset compact records for a rewritten entry
ArchivePos(cur) == cur

RECURSIVE rewrite(_, _, _, _, _, _, _)
\* the loop over index.iter_mut(), in the order `order`: [st, buf, res]
rewrite(S, compact_gen, order, i, buf, cur, fault) ==
    IF i > Len(order) THEN [st |-> S, buf |-> buf, res |-> "Ok"]
    ELSE LET k == order[i]
             m == S.index[k]
         IN  IF m.gen \notin S.readers THEN [st |-> S, buf |-> buf, res |-> "panic"]
             ELSE IF fault = Fault("rewrite", i)
                  THEN [st |-> S, buf |-> buf, res |-> "IoError"]
             ELSE LET line == read_line(S.disk[m.gen], m.pos)
                      S1 == [S EXCEPT !.index[k] =
                                IndexMeta(compact_gen, ArchivePos(cur))]
                  IN  rewrite(S1, compact_gen, order, i + 1, buf \o line,
                              cur + FileLen(line), fault)

Superseded_keeps_active(g, compact_gen) == g < compact_gen - 1
\* which listed generations compact deletes
Superseded(g, compact_gen) == g < compact_gen

drop_reader_kept(rs, g) == rs
\* self.readers.remove(&gen), which compact runs before remove_file
drop_reader(rs, g) == rs \ {g}

RECURSIVE delete_old(_, _, _, _, _)
\* the loop over gen_list(path), listed in the order dl: [st, res]
delete_old(S, compact_gen, dl, i, fault) ==
    IF i > Len(dl) THEN [st |-> S, res |-> "Ok"]
    ELSE IF ~Superseded(dl[i], compact_gen)
         THEN delete_old(S, compact_gen, dl, i + 1, fault)
    ELSE LET S1 == [S EXCEPT !.readers = drop_reader(@, dl[i])]
         IN  IF fault = Fault("delete", i) THEN [st |-> S1, res |-> "IoError"]
             ELSE delete_old([S1 EXCEPT !.disk =
                                [g \in (DOMAIN @) \ {dl[i]} |-> @[g]]],
                             compact_gen, dl, i + 1, fault)

RECURSIVE written_through(_)
\* what of buf is in the file although no flush succeeded: write_all hands a
\* line of BufCapacity or more to the file after the lines buffered before it
written_through(buf) ==
    IF buf = <<>> THEN <<>>
    ELSE IF buf[Len(buf)].len >= BufCapacity THEN buf
    ELSE written_through(SubSeq(buf, 1, Len(buf) - 1))

CursorAfterCompact_kept(c) == c
\* the write cursor compact leaves for the new active segment
CursorAfterCompact(c) == 0

\* compact, with the index iterated in the order `order` and the directory
\* listed in the order dl: [st, res]
compact(S, order, dl, fault) ==
    LET S1 == [S EXCEPT !.gen = @ + 2, !.cursor = CursorAfterCompact(@)]
        P == prepare_new_gen(S1, S1.gen, fault)
        compact_gen == S1.gen - 1
    IN  IF ~P.ok THEN [st |-> P.st, res |-> "IoError"]
        ELSE
        LET S2 == [flush_writer(P.st) EXCEPT !.writerGen = S1.gen]
        IN  IF fault.at = "create_archive" THEN [st |-> S2, res |-> "IoError"]
            ELSE
            LET S3 == [S2 EXCEPT !.disk = new_log(@, compact_gen)]
            IN  IF fault.at = "open_archive" THEN [st |-> S3, res |-> "IoError"]
                ELSE
                LET S4 == [S3 EXCEPT !.readers = @ \cup {compact_gen}]
                    R == rewrite(S4, compact_gen, order, 1, <<>>, 0, fault)
                    \* buf reaches the archive: by buf.flush(), or by the
                    \* drop of buf when the loop returned early
                    S5 == [R.st EXCEPT !.disk[compact_gen] = R.buf]
                IN  IF R.res = "panic" THEN [st |-> S5, res |-> "panic"]
                    ELSE IF fault.at = "archive_lost"
                         THEN [st |-> [R.st EXCEPT !.disk[compact_gen] =
                                            written_through(R.buf)],
                               res |-> "IoError"]
                    ELSE IF R.res # "Ok" \/ fault.at \in {"flush_archive", "list"}
                         THEN [st |-> S5, res |-> "IoError"]
                    ELSE delete_old(S5, compact_gen, dl, 1, fault)

NeedsCompaction_at(c) == c >= COMPACTION_THRESHOLD
\* the test set and remove make after a successful append
NeedsCompaction(c) == c > COMPACTION_THRESHOLD

SetEntry_at_start(S) == IndexMeta(S.gen, 0)
\* the index entry set records for its key
SetEntry(S) == IndexMeta(S.gen, S.cursor)

RemoveAllowed_always(S, k) == TRUE
\* remove looks the key up before it writes anything
RemoveAllowed(S, k) == k \in DOMAIN S.index

\* set: [st, res, logged, compacted, before]
set(S, k, v, order, dl, fault) ==
    LET idx_val == SetEntry(S)
        L == log_cmd(S, Line(SetCmd(k, v)), fault)
        S1 == [L.st EXCEPT !.index = index_insert(@, k, idx_val)]
        C == compact(S1, order, dl, fault)
    IN  IF ~L.ok
        THEN [st |-> L.st, res |-> "IoError", logged |-> FALSE,
              compacted |-> FALSE, before |-> S]
        ELSE IF NeedsCompaction(S1.cursor)
        THEN [st |-> C.st, res |-> C.res, logged |-> TRUE,
              compacted |-> TRUE, before |-> S1]
        ELSE [st |-> S1, res |-> "Ok", logged |-> TRUE,
              compacted |-> FALSE, before |-> S]

\* remove: [st, res, logged, compacted, before]
remove(S, k, order, dl, fault) ==
    LET L == log_cmd(S, Line(RemoveCmd(k)), fault)
        S1 == [L.st EXCEPT !.index = index_remove(@, k)]
        C == compact(S1, order, dl, fault)
    IN  IF ~RemoveAllowed(S, k)
        THEN [st |-> S, res |-> "KeyNotFound", logged |-> FALSE,
              compacted |-> FALSE, before |-> S]
        ELSE IF ~L.ok
        THEN [st |-> L.st, res |-> "IoError", logged |-> FALSE,
              compacted |-> FALSE, before |-> S]
        ELSE IF NeedsCompaction(S1.cursor)
        THEN [st |-> C.st, res |-> C.res, logged |-> TRUE,
              compacted |-> TRUE, before |-> S1]
        ELSE [st |-> S1, res |-> "Ok", logged |-> TRUE,
              compacted |-> FALSE, before |-> S]

\* ------------------------------------------------------------------------
\* open

\* std::fs::create_dir_all: makes an absent path a directory, succeeds on a
\* directory, and fails when the path names something else: [ok, kind]
create_dir_all(kind) ==
    [ok |-> kind # "file", kind |-> IF kind = "absent" THEN "dir" ELSE kind]

\* what open returns for a path of this kind before it reads the directory
open_path_result(kind) ==
    LET made == create_dir_all(kind)
    IN  IF ~made.ok THEN "IoError"
        ELSE IF made.kind # "dir" THEN "InvalidPath"
        ELSE "Ok"

\* open on a directory listed in the order dl: [st, res]
open(d, dl, fault) ==
    LET listed == dl
        rd == {listed[i] : i \in 1..Len(listed)}
        sorted == SortGens(listed)
        g == NextGen(sorted)
        S0 == [index |-> EmptyIndex, readers |-> rd, writerGen |-> g,
               wbuf |-> <<>>, gen |-> g, cursor |-> 0, disk |-> d]
        P == prepare_new_gen(S0, g, fault)
    IN  IF ~P.ok THEN [st |-> P.st, res |-> "IoError"]
        ELSE IF ~replay_ok(P.st.disk, sorted)
             THEN [st |-> P.st, res |-> "SerdeJsonError"]
        ELSE [st |-> [P.st EXCEPT !.index = build_index(P.st.disk, sorted)],
              res |-> "Ok"]

\* ------------------------------------------------------------------------
\* Actions

RECURSIVE CountLines(_, _)
CountLines(d, gs) ==
    IF gs = {} THEN 0
    ELSE LET g == CHOOSE x \in gs : TRUE
         IN  Len(d[g]) + CountLines(d, gs \ {g})

\* room left within the bounds for one more line / two more generations
RoomForLine == CountLines(disk, DOMAIN disk) + Len(wbuf) < MaxRecs
RoomForCompaction == gen + 2 <= MaxGen

Op(op, res, compacted) == [op |-> op, res |-> res, compacted |-> compacted]

NoView == <<>>

\* what is remembered of the store S in which a compaction starts, and of
\* the call before the one that compacts
NoPre == [gets |-> <<>>, keys |-> {}, disk |-> <<>>, active |-> 0,
          prev |-> Op("none", "Ok", FALSE)]
PreOf(S) == [gets |-> GetAll(S), keys |-> DOMAIN S.index, disk |-> S.disk,
             active |-> S.gen, prev |-> lastOp]

NoStore == [index |-> EmptyIndex, readers |-> {}, writerGen |-> 0,
            wbuf |-> <<>>, gen |-> 0, cursor |-> 0]

\* an I/O call fails in this step, within the bound on failures
Injected(fault) ==
    /\ fault # NoFault => nfaults < MaxFaults
    /\ nfaults' = IF fault = NoFault THEN nfaults ELSE nfaults + 1

\* the fields of the KvStore and the directory become those of S
Install(S) ==
    /\ index' = S.index
    /\ readers' = S.readers
    /\ writerGen' = S.writerGen
    /\ wbuf' = S.wbuf
    /\ gen' = S.gen
    /\ cursor' = S.cursor
    /\ disk' = S.disk

\* the handle is dropped: the writer's drop flushes its buffer
Dropped(S) ==
    /\ opened' = FALSE
    /\ disk' = IF S.wbuf = <<>> THEN S.disk ELSE flush_writer(S).disk
    /\ index' = NoStore.index
    /\ readers' = NoStore.readers
    /\ writerGen' = NoStore.writerGen
    /\ wbuf' = NoStore.wbuf
    /\ gen' = NoStore.gen
    /\ cursor' = NoStore.cursor

Init ==
    /\ pathKind \in {"absent", "dir", "file"}
    /\ disk = <<>>
    /\ opened = FALSE
    /\ index = NoStore.index
    /\ readers = NoStore.readers
    /\ writerGen = NoStore.writerGen
    /\ wbuf = NoStore.wbuf
    /\ gen = NoStore.gen
    /\ cursor = NoStore.cursor
    /\ lastOp = Op("init", "Ok", FALSE)
    /\ view = [k \in Keys |-> NoVal]
    /\ closedView = NoView
    /\ pre = NoPre
    /\ nfaults = 0
    /\ ever = {}

\* the generations of the files of this step join the history
Recorded == ever' = ever \cup DOMAIN disk'

\* KvStore::open(path) with the given fault
OpenWith(fault) ==
    /\ ~opened
    /\ Injected(fault)
    /\ IF open_path_result(pathKind) # "Ok"
       THEN /\ lastOp' = Op("open", open_path_result(pathKind), FALSE)
            /\ UNCHANGED <<pathKind, disk, opened, index, readers, writerGen,
                           wbuf, gen, cursor, view, closedView, pre>>
       ELSE \E dl \in gen_list(disk) :
              LET R == open(disk, dl, fault)
              IN  /\ R.st.gen <= MaxGen
                  /\ pathKind' = create_dir_all(pathKind).kind
                  /\ lastOp' = Op("open", R.res, FALSE)
                  /\ IF R.res = "Ok"
                     THEN opened' = TRUE /\ Install(R.st)
                     ELSE /\ disk' = R.st.disk
                          /\ UNCHANGED <<opened, index, readers, writerGen,
                                         wbuf, gen, cursor>>
                  /\ UNCHANGED <<view, closedView, pre>>
    /\ Recorded

Open == OpenWith(NoFault)

\* the handle goes out of scope
Close ==
    /\ opened
    /\ Dropped(Store)
    /\ closedView' = GetAll(Store)
    /\ lastOp' = Op("close", "Ok", FALSE)
    /\ pre' = NoPre
    /\ UNCHANGED <<pathKind, view, nfaults, ever>>

\* get(key): what it returns is get(Store, key) and the call leaves the
\* store as it is, unless it panics: the panic unwinds and drops the handle
Get(k) ==
    /\ opened
    /\ IF get(Store, k).res = "panic"
       THEN /\ lastOp' = Op("get", "panic", FALSE)
            /\ Dropped(Store)
            /\ pre' = NoPre
            /\ closedView' = NoView
            /\ UNCHANGED <<pathKind, view, nfaults, ever>>
       ELSE UNCHANGED vars

\* the outcome R of a set, remove or compact call takes effect
Finish(op, R, newView) ==
    /\ lastOp' = Op(op, R.res, R.compacted)
    /\ IF R.res = "panic"
       THEN Dropped(R.st)
       ELSE Install(R.st) /\ UNCHANGED opened
    /\ view' = IF R.logged THEN newView ELSE view
    /\ pre' = IF R.compacted THEN PreOf(R.before) ELSE NoPre
    /\ closedView' = NoView
    /\ Recorded
    /\ UNCHANGED pathKind

\* the orders in which a compaction started from S can iterate the index
\* (HashMap order) and list the directory (read_dir order)
IterOrders(S) == Perms(DOMAIN S.index)
\* gen_list(path) in compact, as the order of the generations its loop acts
\* on; the loop skips the others wherever the listing puts them
ListOrders(S) ==
    Perms({g \in (DOMAIN S.disk) \cup {S.gen + 1, S.gen + 2} :
              Superseded(g, S.gen + 1)})

\* the fault points of the write path and of compaction
Faults ==
    {Fault(at, 0) : at \in {"flush", "create_active", "open_active",
                            "create_archive", "open_archive", "flush_archive",
                            "archive_lost", "list"}}
    \cup {Fault("rewrite", i) : i \in 1..Cardinality(Keys)}
    \cup {Fault("delete", i) : i \in 1..(MaxGen + 1)}

\* set(key, value) with the given fault
SetWith(k, v, fault) ==
    /\ opened
    /\ Injected(fault)
    /\ RoomForLine
    /\ LET R0 == set(Store, k, v, <<>>, <<>>, fault)
       IN  IF R0.compacted
           THEN /\ RoomForCompaction
                /\ \E order \in IterOrders(R0.before) :
                   \E dl \in ListOrders(R0.before) :
                      LET R == set(Store, k, v, order, dl, fault)
                      IN  /\ (fault = NoFault) = (R.res = "Ok")
                          /\ Finish("set", R, [view EXCEPT ![k] = v])
           ELSE /\ (fault = NoFault) = (R0.res = "Ok")
                /\ Finish("set", R0, [view EXCEPT ![k] = v])

\* remove(key) with the given fault
RemoveWith(k, fault) ==
    /\ opened
    /\ Injected(fault)
    /\ RoomForLine
    /\ LET R0 == remove(Store, k, <<>>, <<>>, fault)
       IN  IF R0.compacted
           THEN /\ RoomForCompaction
                /\ \E order \in IterOrders(R0.before) :
                   \E dl \in ListOrders(R0.before) :
                      LET R == remove(Store, k, order, dl, fault)
                      IN  /\ (fault = NoFault) = (R.res \in {"Ok", "KeyNotFound"})
                          /\ Finish("remove", R, [view EXCEPT ![k] = NoVal])
           ELSE /\ (fault = NoFault) = (R0.res \in {"Ok", "KeyNotFound"})
                /\ Finish("remove", R0, [view EXCEPT ![k] = NoVal])

\* compact() with the given fault
CompactWith(fault) ==
    /\ opened
    /\ Injected(fault)
    /\ RoomForCompaction
    /\ \E order \in IterOrders(Store) :
       \E dl \in ListOrders(Store) :
          LET C == compact(Store, order, dl, fault)
              R == [st |-> C.st, res |-> C.res, logged |-> FALSE,
                    compacted |-> TRUE, before |-> Store]
          IN  /\ (fault = NoFault) = (R.res = "Ok")
              /\ Finish("compact", R, view)

Set(k, v) == SetWith(k, v, NoFault)
Remove(k) == RemoveWith(k, NoFault)
Compact == CompactWith(NoFault)

\* the same calls with one I/O call failing
SetFails(k, v) == \E fault \in Faults : SetWith(k, v, fault)
RemoveFails(k) == \E fault \in Faults : RemoveWith(k, fault)
CompactFails == \E fault \in Faults : CompactWith(fault)
OpenFails == \E at \in {"create_active", "open_active"} : OpenWith(Fault(at, 0))

Next ==
    \/ Open
    \/ Close
    \/ \E k \in Keys : Get(k)
    \/ \E k \in Keys : \E v \in Values : Set(k, v)
    \/ \E k \in Keys : Remove(k)
    \/ Compact

Spec == Init /\ [][Next]_vars

NextIO ==
    \/ Next
    \/ OpenFails
    \/ \E k \in Keys : \E v \in Values : SetFails(k, v)
    \/ \E k \in Keys : RemoveFails(k)
    \/ CompactFails

SpecIO == Init /\ [][NextIO]_vars

\* ------------------------------------------------------------------------
\* Properties

\* the generations on disk, ascending
SortedGens == SortedSeq(DOMAIN disk)

\* a call that ran a compaction to its end
Compacted == opened /\ lastOp.compacted /\ lastOp.res = "Ok"

\* C1: for every key, get returns the value of the most recent set of the
\* key that no later successful remove followed, and not-found (Ok(None))
\* otherwise, after any sequence of set, remove and compact calls.
C1_GetIsLastWrite ==
    opened => \A k \in Keys : get(Store, k) = GetResult("Ok", view[k])

\* a write has just triggered a compaction of segments in which a key was
\* set and then overwritten or removed
C1_Witness ==
    /\ opened /\ lastOp.op \in {"set", "remove"} /\ lastOp.res = "Ok"
    /\ lastOp.compacted
    /\ \E k \in Keys : \E g \in DOMAIN pre.disk : \E i \in 1..Len(pre.disk[g]) :
         /\ pre.disk[g][i].key = k
         /\ pre.disk[g][i].val # view[k]

\* C2: opening the directory again yields for every key what get returned
\* when the store was closed, however many segments earlier sessions left.
C2_ReopenSameMapping ==
    (opened /\ lastOp.op = "open" /\ closedView # NoView)
        => GetAll(Store) = closedView

\* a reopened store where a key has records in two older segments and the
\* entry of the later segment is the one in the index
C2_Witness ==
    /\ opened /\ lastOp.op = "open" /\ closedView # NoView
    /\ \E k \in DOMAIN index :
         /\ index[k].gen >= 1
         /\ \E g \in DOMAIN disk : \E i \in 1..Len(disk[g]) :
              g < index[k].gen /\ disk[g][i].key = k

\* C3: a successful compact changes no key's visible value and leaves the
\* set of keys of the index as it was.
C3_CompactKeepsValues ==
    Compacted => GetAll(Store) = pre.gets /\ DOMAIN index = pre.keys

\* a compaction of an index of two keys
C3_Witness == Compacted /\ Cardinality(pre.keys) = 2

\* C4: after a successful compact the segment files are exactly the new
\* archive and the new active generation.
C4_TwoSegmentsRemain ==
    Compacted => /\ DOMAIN disk = {gen - 1, gen}
                 /\ \A g \in DOMAIN pre.disk : g < gen - 1

\* a compaction that found the segments of two earlier sessions
C4_Witness == Compacted /\ Cardinality(DOMAIN pre.disk) >= 3

RECURSIVE SumLineLen(_, _)
\* the bytes of one Set line per key of ks, with the values get returns
SumLineLen(S, ks) ==
    IF ks = {} THEN 0
    ELSE LET k == CHOOSE x \in ks : TRUE
         IN  Line(SetCmd(k, get(S, k).val)).len + SumLineLen(S, ks \ {k})

\* C5: after a successful compact the archive holds exactly one Set line
\* per key of the index and nothing else, its length is the sum of the
\* encoded sizes of those lines, and the new active segment is empty with
\* the write cursor at 0.
C5_ArchiveIsLiveData ==
    Compacted =>
        LET archive == disk[gen - 1]
        IN  /\ Len(archive) = Cardinality(DOMAIN index)
            /\ \A k \in DOMAIN index :
                 \E i \in 1..Len(archive) :
                    archive[i] = Line(SetCmd(k, view[k]))
            /\ FileLen(archive) = SumLineLen(Store, DOMAIN index)
            /\ disk[gen] = <<>>
            /\ cursor = 0

\* a set crossed the threshold and its compaction rewrote two keys
C5_Witness == Compacted /\ lastOp.op = "set" /\ Cardinality(DOMAIN index) = 2

\* C6: remove of a key that is not in the index returns KeyNotFound and
\* changes nothing: no line is written, cursor, generation, index, handles
\* and segment files stay as they were and no compaction runs.
C6_RemoveAbsentChangesNothing ==
    [][\A k \in Keys :
         (opened /\ k \notin DOMAIN index /\ Remove(k))
            => /\ lastOp'.res = "KeyNotFound"
               /\ ~lastOp'.compacted
               /\ UNCHANGED <<disk, index, readers, writerGen, wbuf, gen,
                              cursor, opened>>]_vars

\* a remove was refused on a store that holds data
C6_Witness ==
    /\ opened /\ lastOp.op = "remove" /\ lastOp.res = "KeyNotFound"
    /\ DOMAIN index # {}

\* C7: open fails with InvalidPath when the path exists and is not a
\* directory.
C7_InvalidPathForFile ==
    (lastOp.op = "open" /\ pathKind = "file") => lastOp.res = "InvalidPath"

\* C8: get returns an error value and never panics when the index entry's
\* generation has no read handle or its record is not a Set.
C8_GetNeverPanics == lastOp.op = "get" => lastOp.res # "panic"

\* the lines of a file as a set
LinesOf(f) == {f[i] : i \in 1..Len(f)}

\* a compaction that directly followed another one
Recompacted == Compacted /\ pre.prev.compacted /\ pre.prev.res = "Ok"

\* C9 as stated: once a compaction has run, a further compact with no set
\* or remove in between leaves the set of segment files as it was.
C9_FilesStable == Recompacted => DOMAIN disk = DOMAIN pre.disk

\* C9, amended: every successful compact replaces the segment files by the
\* two generations after the old active one, none of which existed before;
\* when it directly follows another compaction the number of files stays
\* two, the archive holds the same lines and the active segment is empty.
C9_FilesShiftByTwo ==
    Compacted =>
        /\ DOMAIN disk = {pre.active + 1, pre.active + 2}
        /\ DOMAIN disk \cap DOMAIN pre.disk = {}
        /\ Recompacted =>
             /\ DOMAIN pre.disk = {pre.active - 1, pre.active}
             /\ LinesOf(disk[gen - 1]) = LinesOf(pre.disk[pre.active - 1])
             /\ Len(disk[gen - 1]) = Len(pre.disk[pre.active - 1])
             /\ disk[gen] = <<>> /\ pre.disk[pre.active] = <<>>

\* a second compaction in a row on a store that holds a key
C9_Witness == Recompacted /\ pre.keys # {}

\* the last line of key k on disk, as <<generation, line number>>, if any
LinesFor(k) ==
    {gi \in UNION {{<<g, i>> : i \in 1..Len(disk[g])} : g \in DOMAIN disk} :
        disk[gi[1]][gi[2]].key = k}
IsLast(gi, k) ==
    \A o \in LinesFor(k) : o[1] < gi[1] \/ (o[1] = gi[1] /\ o[2] <= gi[2])

\* C10: between calls the index is the one a replay of all segments in
\* ascending generation order yields: a key is in it exactly when the last
\* line of the key is a Set, and its entry is the place of that line.
C10_IndexIsReplay ==
    opened =>
        /\ index = build_index(disk, SortedGens)
        /\ \A k \in Keys :
             k \in DOMAIN index <=>
                \E gi \in LinesFor(k) :
                    IsLast(gi, k) /\ disk[gi[1]][gi[2]].op = "Set"
        /\ \A k \in DOMAIN index : \A gi \in LinesFor(k) :
             IsLast(gi, k) =>
                index[k] = IndexMeta(gi[1], Offset(disk[gi[1]], gi[2]))

\* an index with one entry in the archive a compaction wrote and one in the
\* active segment written to after it
C10_Witness ==
    /\ opened /\ gen >= 2
    /\ \E k \in DOMAIN index : index[k].gen = gen
    /\ \E k \in DOMAIN index : index[k].gen = gen - 1

\* C11: every generation named by an index entry has an open read handle,
\* also after a call returned an I/O error.
C11_EntriesHaveReaders ==
    opened => \A k \in DOMAIN index : index[k].gen \in readers

\* C17: the writer's file is the file of the store's active generation,
\* also after a failed compaction.
C17_WriterIsActive == opened => writerGen = gen

\* C20: the write cursor is the byte length of the file the writer appends
\* to, also after an append or a compaction returned an I/O error.
C20_CursorIsFileLen ==
    opened => writerGen \in DOMAIN disk /\ cursor = FileLen(disk[writerGen])

\* a call whose compaction stopped with an I/O error
CompactAborted == opened /\ lastOp.compacted /\ lastOp.res = "IoError"

\* C16: when compact aborts with an I/O error every key still resolves
\* through get to the value it had when the compaction started, and a set
\* that follows on the same handle is what get then returns for its key.
C16_AbortKeepsIndexUsable ==
    /\ [](CompactAborted => GetAll(Store) = pre.gets)
    /\ [][\A k \in Keys : \A v \in Values :
            (CompactAborted /\ Set(k, v))
                => /\ opened'
                   /\ get([index |-> index', readers |-> readers',
                           disk |-> disk'], k) = GetResult("Ok", v)]_vars

\* the store a new process gets when it opens the directory as the handle
\* S leaves it, listed in the order dl
Reopened(S, dl) == open(S.disk, dl, NoFault)

\* C19: when compaction stops partway through its deletion loop, opening
\* the directory again yields the mapping the store had before the
\* compaction, whichever segments the loop had already deleted.
C19_PartialDeleteKeepsMapping ==
    (CompactAborted /\ \E g \in DOMAIN pre.disk : g \notin DOMAIN disk)
        => \A dl \in gen_list(disk) :
              /\ Reopened(Store, dl).res = "Ok"
              /\ GetAll(Reopened(Store, dl).st) = pre.gets

\* the step is the call set(k, v) / remove(k); the conjuncts before the
\* action follow from it and rule the other steps out first
SetStep(k, v) == lastOp'.op = "set" /\ view'[k] = v /\ Set(k, v)
RemoveStep(k) == lastOp'.op = "remove" /\ view'[k] = NoVal /\ Remove(k)

\* C12: set(k, v) records the entry (active generation, write cursor before
\* the write); every index entry for k is the offset of the first byte of a
\* Set record with key k; a second set of k leaves both records in the log
\* and the one entry of k at the second.
C12_EntryIsSetRecord ==
    /\ [](opened => \A k \in DOMAIN index :
            /\ index[k].gen \in DOMAIN disk
            /\ \E v \in Values :
                  read_line(disk[index[k].gen], index[k].pos)
                      = <<Line(SetCmd(k, v))>>)
    /\ [][\A k \in Keys : \A v \in Values :
            (~lastOp'.compacted /\ SetStep(k, v))
                => /\ index'[k] = IndexMeta(gen, cursor)
                   /\ disk' = [disk EXCEPT ![gen] =
                                  Append(@, Line(SetCmd(k, v)))]
                   /\ read_line(disk'[gen], cursor) = <<Line(SetCmd(k, v))>>]_vars

C12_Witness ==
    /\ opened
    /\ \E k \in Keys :
          /\ Len(disk[gen]) = 2
          /\ \A i \in 1..2 : disk[gen][i].op = "Set" /\ disk[gen][i].key = k
          /\ index[k] = IndexMeta(gen, disk[gen][1].len)

\* C14: a segment file is deleted only by a compaction, only when its
\* generation is below that compaction's archive generation, only when no
\* index entry references it, and its read handle is gone when it is.
C14_DeleteOnlySuperseded ==
    [][\A g \in (DOMAIN disk) \ (DOMAIN disk') :
          /\ opened' /\ lastOp'.compacted
          /\ g < gen' - 1
          /\ \A k \in DOMAIN index' : index'[k].gen # g
          /\ g \notin readers']_vars

C14_Witness ==
    /\ opened /\ lastOp.compacted /\ lastOp.res = "Ok"
    /\ pre.keys # {}
    /\ Cardinality((DOMAIN pre.disk) \ (DOMAIN disk)) >= 2

\* the cursor a successful append of a line of len bytes leaves, counted
\* from the bytes of the active segment
CursorAfter(len) == FileLen(disk[gen]) + len

\* C15: a successful set or remove runs compaction exactly when the write
\* cursor after its append is above the threshold; otherwise it creates and
\* deletes no segment file; the cursor counts the bytes of the active
\* segment only, which a session starts empty.
C15_CompactIffOverThreshold ==
    [][/\ \A k \in Keys : \A v \in Values :
            SetStep(k, v) =>
               LET after == CursorAfter(Line(SetCmd(k, v)).len)
               IN  /\ lastOp'.compacted = (after > COMPACTION_THRESHOLD)
                   /\ ~lastOp'.compacted
                         => DOMAIN disk' = DOMAIN disk /\ cursor' = after
       /\ \A k \in Keys :
            (lastOp'.res = "Ok" /\ RemoveStep(k)) =>
               LET after == CursorAfter(Line(RemoveCmd(k)).len)
               IN  /\ lastOp'.compacted = (after > COMPACTION_THRESHOLD)
                   /\ ~lastOp'.compacted
                         => DOMAIN disk' = DOMAIN disk /\ cursor' = after
       /\ (~opened /\ opened') => (cursor' = 0 /\ disk'[gen'] = <<>>)]_vars

C15_Witness ==
    /\ opened /\ lastOp.op = "set" /\ ~lastOp.compacted
    /\ cursor = COMPACTION_THRESHOLD
    /\ \E g \in DOMAIN disk : g # gen /\ disk[g] # <<>>

\* the writes made so far are in the segment files: the write buffer is
\* empty and a process that opens the directory as it is, without any
\* further call on this handle, finds the value last written for every key
Durable ==
    /\ wbuf = <<>>
    /\ \A dl \in gen_list(disk) :
          LET R == Reopened(Store, dl)
          IN  /\ R.res = "Ok"
              /\ GetAll(R.st) = [k \in Keys |-> GetResult("Ok", view[k])]

\* C18: when set or remove returns Ok its record is in the segment files
\* with nothing left in the write buffer, so opening the directory without
\* any further call on the handle reflects the write, also when the write
\* triggered a compaction.
C18_WriteIsDurable ==
    (opened /\ lastOp.op \in {"set", "remove"} /\ lastOp.res = "Ok")
        => Durable

C18_Witness ==
    /\ opened /\ lastOp.op \in {"set", "remove"} /\ lastOp.res = "Ok"
    /\ lastOp.compacted
    /\ \E k \in Keys : view[k] # NoVal
    /\ Durable

\* the largest generation of a non-empty set
MaxOf(gs) == CHOOSE g \in gs : \A h \in gs : h <= g

\* C13: generation ids only grow and are never reused: open takes
\* max(existing) + 1, or 0 in an empty directory; a compaction takes old
\* active + 1 for the archive and old active + 2 for the new active segment;
\* no file is created with a generation a segment file has had before.
C13_GenerationsNeverReused ==
    [][/\ (~opened /\ opened')
            => /\ gen' = IF DOMAIN disk = {} THEN 0
                         ELSE MaxOf(DOMAIN disk) + 1
               /\ gen' \notin ever
               /\ DOMAIN disk' = (DOMAIN disk) \cup {gen'}
       /\ (opened /\ lastOp'.compacted /\ lastOp'.res = "Ok")
            => /\ gen' = gen + 2
               /\ {gen + 1, gen + 2} \subseteq DOMAIN disk'
               /\ {gen + 1, gen + 2} \cap ever = {}
       /\ \A g \in (DOMAIN disk') \ (DOMAIN disk) :
             g \notin ever /\ \A h \in ever : h < g
       /\ (opened /\ opened') => gen' >= gen]_vars

C13_Witness ==
    /\ opened /\ lastOp.op = "open" /\ lastOp.res = "Ok"
    /\ ever \ (DOMAIN disk) # {}
    /\ gen = MaxOf(ever)
    /\ gen - 1 \in DOMAIN disk /\ gen - 2 \in DOMAIN disk

====
